---- MODULE Spec2Model ----
(***************************************************************************)
(* Kanban backend: the SQLite repository (KanbanDatabase), the service     *)
(* (KanbanService) and the HTTP routes that call it.                       *)
(*                                                                         *)
(* The database is one record of four tables, each a set of rows.  Ids are *)
(* small integers (the code's ids are opaque strings), text columns are    *)
(* strings, and a tag name is a sequence of one-character strings, so that *)
(* GROUP_CONCAT and String.split(',') are computed character by character. *)
(***************************************************************************)
EXTENDS Integers, Sequences, FiniteSets, TLC

VARIABLES db, now, last

vars == <<db, now, last>>

(***************************************************************************)
(* Bounds of the model.                                                    *)
(***************************************************************************)
MaxProjects == 2
MaxTasks == 3
MaxClock == 1
MaxOrder == 2
MaxColumnOrder == 4
OrderColumns == 2
BoardColumns == 1
BoardTasks == 2
ColumnTasks == 1
TagTasks == 2
MaxTags == 2
FailingListLen == 2
DeleteColumns == 2
DeleteTasks == 3
FieldColumns == 2
FieldTasks == 2

ProjectIds == 1 .. MaxProjects
ColumnIds == 1 .. (3 * MaxProjects + 1)
TaskIds == 1 .. MaxTasks

(***************************************************************************)
(* SQL NULL in a text column, and in the GROUP_CONCAT column of a read.    *)
(***************************************************************************)
Null == "<null>"
NullTags == <<"<null>">>

Max(S) == CHOOSE x \in S : \A y \in S : y <= x
Min(S) == CHOOSE x \in S : \A y \in S : x <= y
Range(s) == {s[i] : i \in 1 .. Len(s)}

(* All orders of the finite set S. *)
Perms(S) ==
  {s \in [1 .. Cardinality(S) -> S] : \A i, j \in 1 .. Cardinality(S) : i # j => s[i] # s[j]}

(***************************************************************************)
(* Statement results: the database after the statement and whether it ran  *)
(* (ok) or threw (a constraint error leaves the database as it was).       *)
(***************************************************************************)
Ok(d) == [ok |-> TRUE, error |-> FALSE, db |-> d, log |-> <<>>]
Throw(d) == [ok |-> FALSE, error |-> TRUE, db |-> d, log |-> <<>>]
ReturnFalse(d) == [ok |-> FALSE, error |-> FALSE, db |-> d, log |-> <<>>]

(* A value that node:sqlite cannot bind to a statement parameter (an       *)
(* object, a boolean, undefined): stmt.run throws before it runs.          *)
Unbindable == <<"<object>">>
UnbindableId == 0

EmptyDb == [projects |-> {}, columns |-> {}, tasks |-> {}, task_tags |-> {}]

projectIds(d) == {p.id : p \in d.projects}
columnIds(d) == {c.id : c \in d.columns}
taskIds(d) == {t.id : t \in d.tasks}

(* generateId: an id no row of the table uses. *)
generateId(pool, used) == Min(pool \ used)

(***************************************************************************)
(* Schema (initTables): ON DELETE CASCADE from projects to columns to      *)
(* tasks to task_tags, applied after a DELETE.                              *)
(***************************************************************************)
(* Mutation of cascade: the tag rows of a deleted task are left behind. *)
cascadeToTasks(d) ==
  LET cols == {c \in d.columns : c.project_id \in projectIds(d)}
      tsks == {t \in d.tasks : t.column_id \in {c.id : c \in cols}}
  IN [d EXCEPT !.columns = cols, !.tasks = tsks]

cascade(d) ==
  LET cols == {c \in d.columns : c.project_id \in projectIds(d)}
      tsks == {t \in d.tasks : t.column_id \in {c.id : c \in cols}}
      tags == {g \in d.task_tags : g.task_id \in {t.id : t \in tsks}}
  IN [d EXCEPT !.columns = cols, !.tasks = tsks, !.task_tags = tags]

PriorityCheck(p) == p \in {"low", "medium", "high", Null}

(* === projects === *)
dbCreateProject(d, project) ==
  IF project.name = Null \/ project.id \in projectIds(d)
  THEN Throw(d)
  ELSE Ok([d EXCEPT !.projects = @ \cup {project}])

getProject(d, projectId) == {p \in d.projects : p.id = projectId}

(* UPDATE projects SET <name, description as supplied> WHERE id = ?;      *)
(* false without a statement when neither is supplied.                     *)
dbUpdateProject(d, projectId, updates) ==
  LET upd(k, old) == IF k \in DOMAIN updates THEN updates[k] ELSE old
  IN IF DOMAIN updates \cap {"name", "description"} = {} THEN ReturnFalse(d)
     ELSE IF projectId \in projectIds(d) /\ upd("name", "") = Null THEN Throw(d)
     ELSE [ok |-> projectId \in projectIds(d), error |-> FALSE, log |-> <<>>,
           db |-> [d EXCEPT !.projects =
                     {IF p.id = projectId
                      THEN [p EXCEPT !.name = upd("name", @),
                                     !.description = upd("description", @)]
                      ELSE p : p \in @}]]

dbDeleteProject(d, projectId) ==
  cascade([d EXCEPT !.projects = {p \in @ : p.id # projectId}])

(* === columns === *)
dbCreateColumn(d, column, projectId) ==
  IF \/ column.id \in columnIds(d)
     \/ column.title = Null
     \/ column.color = Null
     \/ projectId \notin projectIds(d)
  THEN Throw(d)
  ELSE Ok([d EXCEPT !.columns = @ \cup
             {[id |-> column.id, project_id |-> projectId, title |-> column.title,
               color |-> column.color, order_index |-> column.order_index]}])

(* ORDER BY order_index: every order of the rows with no inversion. *)
getColumnsByProject(d, projectId) ==
  LET rows == {c \in d.columns : c.project_id = projectId}
  IN {s \in Perms(rows) :
        \A i, j \in 1 .. Len(s) : i < j => s[i].order_index <= s[j].order_index}

(* UPDATE columns SET <title, color as supplied> WHERE id = ? *)
dbUpdateColumn(d, columnId, updates) ==
  LET upd(k, old) == IF k \in DOMAIN updates THEN updates[k] ELSE old
  IN IF DOMAIN updates \cap {"title", "color"} = {} THEN ReturnFalse(d)
     ELSE IF columnId \in columnIds(d) /\ (upd("title", "") = Null \/ upd("color", "") = Null)
     THEN Throw(d)
     ELSE [ok |-> columnId \in columnIds(d), error |-> FALSE, log |-> <<>>,
           db |-> [d EXCEPT !.columns =
                     {IF c.id = columnId
                      THEN [c EXCEPT !.title = upd("title", @), !.color = upd("color", @)]
                      ELSE c : c \in @}]]

(* Mutation of dbDeleteColumn: the DELETE names the project of the column. *)
dbDeleteColumnsOfProject(d, columnId) ==
  LET owners == {c.project_id : c \in {x \in d.columns : x.id = columnId}}
  IN cascade([d EXCEPT !.columns = {c \in @ : c.project_id \notin owners}])

dbDeleteColumn(d, columnId) ==
  cascade([d EXCEPT !.columns = {c \in @ : c.id # columnId}])

(* === tasks === *)
tasksIn(d, columnId) == {t \in d.tasks : t.column_id = columnId}

(* Mutation of nextOrderIndex: the row count in place of MAX(order_index) + 1. *)
nextOrderIndexByCount(d, columnId) == Cardinality({t \in d.tasks : t.column_id = columnId})

(* COALESCE(MAX(order_index), -1) + 1 over the tasks of the column. *)
nextOrderIndex(d, columnId) ==
  IF tasksIn(d, columnId) = {} THEN 0
  ELSE Max({t.order_index : t \in tasksIn(d, columnId)}) + 1

dbCreateTask(d, task) ==
  IF \/ task.id \in taskIds(d)
     \/ task.title = Null
     \/ ~PriorityCheck(task.priority)
     \/ task.column_id \notin columnIds(d)
  THEN Throw(d)
  ELSE Ok([d EXCEPT !.tasks = @ \cup
             {[id |-> task.id, column_id |-> task.column_id, title |-> task.title,
               description |-> task.description, assignee |-> task.assignee,
               due_date |-> task.due_date, priority |-> task.priority,
               created_at |-> now,
               order_index |-> nextOrderIndex(d, task.column_id)]}])

tagsOf(d, taskId) == {g.tag_name : g \in {r \in d.task_tags : r.task_id = taskId}}

(* s[1] , s[2] , ... joined with a comma (GROUP_CONCAT's default separator). *)
RECURSIVE Join(_)
Join(s) ==
  IF Len(s) = 0 THEN <<>>
  ELSE IF Len(s) = 1 THEN s[1]
  ELSE s[1] \o <<",">> \o Join(Tail(s))

(* GROUP_CONCAT(tt.tag_name) over the LEFT JOIN: NULL without a tag row,   *)
(* otherwise the names in an order SQLite does not promise.                *)
groupConcat(d, taskId) ==
  IF tagsOf(d, taskId) = {} THEN {NullTags}
  ELSE {Join(s) : s \in Perms(tagsOf(d, taskId))}

(* ORDER BY COALESCE(t.order_index, 0), t.created_at *)
taskBefore(a, b) ==
  \/ a.order_index < b.order_index
  \/ a.order_index = b.order_index /\ a.created_at < b.created_at

(* Mutation of taskOrders: ORDER BY order_index alone. *)
taskOrdersByIndexOnly(d, columnId) ==
  {s \in Perms(tasksIn(d, columnId)) :
     \A i, j \in 1 .. Len(s) : i < j => s[i].order_index <= s[j].order_index}

(* The orders in which the column's task rows can be read. *)
taskOrders(d, columnId) ==
  {s \in Perms(tasksIn(d, columnId)) :
     \A i, j \in 1 .. Len(s) : i < j => ~taskBefore(s[j], s[i])}

(* The rows of a read, each with one possible GROUP_CONCAT value. *)
RECURSIVE withTags(_, _)
withTags(d, s) ==
  IF s = <<>> THEN {<<>>}
  ELSE {<<[id |-> Head(s).id, column_id |-> Head(s).column_id, title |-> Head(s).title,
           description |-> Head(s).description, assignee |-> Head(s).assignee,
           due_date |-> Head(s).due_date, priority |-> Head(s).priority,
           order_index |-> Head(s).order_index, created_at |-> Head(s).created_at,
           tags |-> g]>> \o rest :
          g \in groupConcat(d, Head(s).id), rest \in withTags(d, Tail(s))}

getTasksByColumn(d, columnId) == UNION {withTags(d, s) : s \in taskOrders(d, columnId)}

getTask(d, taskId) == {t \in d.tasks : t.id = taskId}

(* The columns of tasks, the key apart *)
TaskColumns ==
  {"title", "description", "assignee", "due_date", "priority", "column_id", "order_index",
   "created_at"}

(* UPDATE tasks SET <the keys of updates> WHERE id = ?; no key: no        *)
(* statement, and false. A key that names no column fails the prepare; a   *)
(* row that breaks NOT NULL, the CHECK or the foreign key fails the run.   *)
dbUpdateTask(d, taskId, updates) ==
  LET upd(k, old) == IF k \in DOMAIN updates THEN updates[k] ELSE old
      hit == getTask(d, taskId)
  IN IF DOMAIN updates = {} THEN ReturnFalse(d)
     ELSE IF DOMAIN updates \ TaskColumns # {} THEN Throw(d)
     ELSE IF hit # {} /\ (\/ upd("title", "") = Null
                          \/ ~PriorityCheck(upd("priority", Null))
                          \/ /\ "column_id" \in DOMAIN updates
                             /\ updates.column_id \notin columnIds(d))
     THEN Throw(d)
     ELSE [ok |-> hit # {}, error |-> FALSE, log |-> <<>>,
           db |-> [d EXCEPT !.tasks =
                     {IF t.id = taskId
                      THEN [t EXCEPT !.title = upd("title", @),
                                     !.description = upd("description", @),
                                     !.assignee = upd("assignee", @),
                                     !.due_date = upd("due_date", @),
                                     !.priority = upd("priority", @),
                                     !.column_id = upd("column_id", @),
                                     !.order_index = upd("order_index", @),
                                     !.created_at = upd("created_at", @)]
                      ELSE t : t \in @}]]

dbDeleteTask(d, taskId) ==
  cascade([d EXCEPT !.tasks = {t \in @ : t.id # taskId}])

(* Mutation of dbMoveTask: the moved task's order_index is reset. *)
dbMoveTaskToFront(d, taskId, newColumnId) ==
  IF getTask(d, taskId) # {} /\ newColumnId \notin columnIds(d)
  THEN Throw(d)
  ELSE Ok([d EXCEPT !.tasks =
             {IF t.id = taskId THEN [t EXCEPT !.column_id = newColumnId, !.order_index = 0]
              ELSE t : t \in @}])

(* Mutation of dbMoveTask: the foreign key on column_id is not enforced. *)
dbMoveTaskUnchecked(d, taskId, newColumnId) ==
  Ok([d EXCEPT !.tasks =
        {IF t.id = taskId THEN [t EXCEPT !.column_id = newColumnId] ELSE t : t \in @}])

(* UPDATE tasks SET column_id = ? WHERE id = ?, under the foreign key. *)
dbMoveTask(d, taskId, newColumnId) ==
  IF getTask(d, taskId) # {} /\ newColumnId \notin columnIds(d)
  THEN Throw(d)
  ELSE Ok([d EXCEPT !.tasks =
             {IF t.id = taskId THEN [t EXCEPT !.column_id = newColumnId] ELSE t : t \in @}])

updateTaskOrder(d, taskId, order) ==
  [d EXCEPT !.tasks =
     {IF t.id = taskId THEN [t EXCEPT !.order_index = order] ELSE t : t \in @}]

(* === batches === *)
updateColumnOrder(d, columnId, order) ==
  [d EXCEPT !.columns =
     {IF c.id = columnId THEN [c EXCEPT !.order_index = order] ELSE c : c \in @}]

(* for (const { columnId, order } of columnOrders) stmt.run(order, columnId) *)
RECURSIVE columnOrderStatements(_, _)
columnOrderStatements(d, columnOrders) ==
  IF columnOrders = <<>> THEN Ok(d)
  ELSE IF Head(columnOrders).columnId = UnbindableId THEN Throw(d)
  ELSE columnOrderStatements(
         updateColumnOrder(d, Head(columnOrders).columnId, Head(columnOrders).order),
         Tail(columnOrders))

(* for (const { taskId, order } of taskOrders) stmt.run(order, taskId) *)
RECURSIVE taskOrderStatements(_, _)
taskOrderStatements(d, orders) ==
  IF orders = <<>> THEN Ok(d)
  ELSE IF Head(orders).taskId = UnbindableId THEN Throw(d)
  ELSE taskOrderStatements(
         updateTaskOrder(d, Head(orders).taskId, Head(orders).order),
         Tail(orders))

(* === tags === *)
(* INSERT OR IGNORE of each tag in turn: a repeated (task_id, tag_name)   *)
(* and a NULL tag_name are skipped; a task_id with no task row violates    *)
(* the foreign key and a value that cannot be bound throws, the rows of    *)
(* the tags before it inserted.                                            *)
RECURSIVE addTaskTags(_, _, _)
addTaskTags(d, taskId, tags) ==
  IF tags = <<>> THEN Ok(d)
  ELSE IF Head(tags) = NullTags THEN addTaskTags(d, taskId, Tail(tags))
  ELSE IF Head(tags) = Unbindable \/ getTask(d, taskId) = {} THEN Throw(d)
  ELSE addTaskTags([d EXCEPT !.task_tags = @ \cup
                      {[task_id |-> taskId, tag_name |-> Head(tags)]}],
                   taskId, Tail(tags))

(* Mutation of deleteTaskTags: no row is deleted. *)
keepTaskTags(d, taskId) == d

deleteTaskTags(d, taskId) ==
  [d EXCEPT !.task_tags = {g \in @ : g.task_id # taskId}]

(***************************************************************************)
(* initTables on an existing data file: the tables exist, and the          *)
(* migration's UPDATE rewrites every row whose order_index is 0.           *)
(***************************************************************************)
initTables(d) ==
  LET rank(t) == Cardinality({t2 \in d.tasks :
                     t2.column_id = t.column_id /\ t2.created_at <= t.created_at}) - 1
  IN [d EXCEPT !.tasks =
        {IF t.order_index = 0 THEN [t EXCEPT !.order_index = rank(t)] ELSE t : t \in @}]

(***************************************************************************)
(* KanbanService.  An operation that reads in an order SQLite does not     *)
(* promise has several possible results: those operators return a set.     *)
(***************************************************************************)
RECURSIVE freshIds(_, _, _)
freshIds(pool, used, n) ==
  IF n = 0 THEN <<>>
  ELSE <<generateId(pool, used)>> \o freshIds(pool, used \cup {generateId(pool, used)}, n - 1)

(* Mutation of defaultColumns: the orders are seeded from 0. *)
defaultColumnsFromZero ==
  << [title |-> "To Do", color |-> "bg-blue-500", order |-> 0],
     [title |-> "In Progress", color |-> "bg-yellow-500", order |-> 1],
     [title |-> "Done", color |-> "bg-green-500", order |-> 2] >>

defaultColumns ==
  << [title |-> "To Do", color |-> "bg-blue-500", order |-> 1],
     [title |-> "In Progress", color |-> "bg-yellow-500", order |-> 2],
     [title |-> "Done", color |-> "bg-green-500", order |-> 3] >>

(* columns.forEach(column => this.db.createColumn(...)): stops at a throw. *)
RECURSIVE createColumns(_, _, _)
createColumns(d, cols, projectId) ==
  IF cols = <<>> THEN Ok(d)
  ELSE LET r == dbCreateColumn(d, Head(cols), projectId)
       IN IF r.ok THEN createColumns(r.db, Tail(cols), projectId) ELSE r

createProjectWithIds(d, projectData, projectId, ids) ==
  LET project == [id |-> projectId, name |-> projectData.name,
                  description |-> projectData.description, created_at |-> now]
      r == dbCreateProject(d, project)
      cols == [i \in 1 .. Len(defaultColumns) |->
                 [id |-> ids[i], title |-> defaultColumns[i].title,
                  color |-> defaultColumns[i].color,
                  order_index |-> defaultColumns[i].order]]
  IN IF r.ok THEN createColumns(r.db, cols, projectId) ELSE r

(* The same with the ids generateId returns in this model: ids no row uses *)
createProjectWithDefaults(d, projectData) ==
  createProjectWithIds(d, projectData, generateId(ProjectIds, projectIds(d)),
                       freshIds(ColumnIds, columnIds(d), Len(defaultColumns)))

(* Mutation of createColumn: the order is the number of columns plus one. *)
createColumnByCount(d, columnData, projectId) ==
  LET columnId == generateId(ColumnIds, columnIds(d))
      count == Cardinality({x \in d.columns : x.project_id = projectId})
  IN dbCreateColumn(d, [id |-> columnId, title |-> columnData.title,
                        color |-> columnData.color, order_index |-> count + 1],
                    projectId)

createColumn(d, columnData, projectId) ==
  LET columnId == generateId(ColumnIds, columnIds(d))
      orders == {c.order_index : c \in {x \in d.columns : x.project_id = projectId}}
      maxOrder == IF orders # {} THEN Max(orders) ELSE 0
  IN dbCreateColumn(d, [id |-> columnId, title |-> columnData.title,
                        color |-> columnData.color, order_index |-> maxOrder + 1],
                    projectId)

updateProject(d, projectId, updates) == dbUpdateProject(d, projectId, updates)

updateColumn(d, columnId, updates) == dbUpdateColumn(d, columnId, updates)

(* The delete operations return whether a row was deleted. *)
deleteProject(d, projectId) ==
  [ok |-> projectId \in projectIds(d), error |-> FALSE, db |-> dbDeleteProject(d, projectId),
   log |-> <<>>]

deleteColumn(d, columnId) ==
  [ok |-> columnId \in columnIds(d), error |-> FALSE, db |-> dbDeleteColumn(d, columnId),
   log |-> <<>>]

deleteTask(d, taskId) ==
  [ok |-> taskId \in taskIds(d), error |-> FALSE, db |-> dbDeleteTask(d, taskId),
   log |-> <<>>]

(* taskData.tags is absent when "tags" is no key of taskData: reading      *)
(* task.tags.length then throws, after the INSERT.                         *)
createTask(d, taskData, columnId) ==
  LET taskId == generateId(TaskIds, taskIds(d))
      r == dbCreateTask(d, [id |-> taskId, column_id |-> columnId,
                            title |-> taskData.title,
                            description |-> taskData.description,
                            assignee |-> taskData.assignee,
                            due_date |-> taskData.dueDate,
                            priority |-> taskData.priority])
  IN IF ~r.ok THEN r
     ELSE IF "tags" \notin DOMAIN taskData THEN Throw(r.db)
     ELSE IF Len(taskData.tags) > 0 THEN addTaskTags(r.db, taskId, taskData.tags)
     ELSE r

(* Mutation of rollback: the writes of the transaction stay. *)
rollbackNothing(begun, current) == current

(* exec('ROLLBACK'): the database is as it was at BEGIN TRANSACTION. *)
rollback(begun, current) == begun

(* BEGIN TRANSACTION, the statements, COMMIT; ROLLBACK and throw again on  *)
(* an exception.                                                           *)
updateColumnsOrder(d, columnOrders) ==
  LET r == columnOrderStatements(d, columnOrders)
  IN IF r.ok THEN [r EXCEPT !.log = <<"BEGIN", "COMMIT">>]
     ELSE [Throw(rollback(d, r.db)) EXCEPT !.log = <<"BEGIN", "ROLLBACK">>]

(* Mutation of updateTasksOrder: the catch block has no ROLLBACK. *)
updateTasksOrderLeftOpen(d, orders) ==
  LET r == taskOrderStatements(d, orders)
  IN IF r.ok THEN [r EXCEPT !.log = <<"BEGIN", "COMMIT">>]
     ELSE [Throw(r.db) EXCEPT !.log = <<"BEGIN">>]

updateTasksOrder(d, orders) ==
  LET r == taskOrderStatements(d, orders)
  IN IF r.ok THEN [r EXCEPT !.log = <<"BEGIN", "COMMIT">>]
     ELSE [Throw(rollback(d, r.db)) EXCEPT !.log = <<"BEGIN", "ROLLBACK">>]

(* Mutation of updateTask: every key of the body but tags reaches the     *)
(* UPDATE statement.                                                       *)
updateTaskPassingBody(d, taskId, updates) ==
  LET column(k) == IF k = "dueDate" THEN "due_date" ELSE k
      key(c) == IF c = "due_date" THEN "dueDate" ELSE c
      taskUpdates == [c \in {column(k) : k \in DOMAIN updates \ {"tags"}} |-> updates[key(c)]]
      a == IF DOMAIN updates \ {"tags"} # {} THEN dbUpdateTask(d, taskId, taskUpdates)
           ELSE Ok(d)
      b == IF "tags" \in DOMAIN updates
           THEN IF Len(updates.tags) > 0
                THEN addTaskTags(deleteTaskTags(a.db, taskId), taskId, updates.tags)
                ELSE Ok(deleteTaskTags(a.db, taskId))
           ELSE a
  IN IF getTask(d, taskId) = {} THEN ReturnFalse(d)
     ELSE IF a.error
     THEN [ReturnFalse(rollback(d, a.db)) EXCEPT !.log = <<"BEGIN", "ROLLBACK">>]
     ELSE IF b.error
     THEN [ReturnFalse(rollback(d, b.db)) EXCEPT !.log = <<"BEGIN", "ROLLBACK">>]
     ELSE [Ok(b.db) EXCEPT !.log = <<"BEGIN", "COMMIT">>]

(* Mutation of updateTask: no check that the task exists. *)
updateTaskUnchecked(d, taskId, updates) ==
  LET keys == {"title", "description", "assignee", "dueDate", "priority"} \cap DOMAIN updates
      column(k) == IF k = "dueDate" THEN "due_date" ELSE k
      taskUpdates == [c \in {column(k) : k \in keys} |->
                        IF c = "due_date" THEN updates["dueDate"] ELSE updates[c]]
      a == IF DOMAIN updates \ {"tags"} # {} THEN dbUpdateTask(d, taskId, taskUpdates)
           ELSE Ok(d)
      b == IF "tags" \in DOMAIN updates
           THEN IF Len(updates.tags) > 0
                THEN addTaskTags(deleteTaskTags(a.db, taskId), taskId, updates.tags)
                ELSE Ok(deleteTaskTags(a.db, taskId))
           ELSE a
  IN IF a.error THEN ReturnFalse(rollback(d, a.db))
     ELSE IF b.error THEN ReturnFalse(rollback(d, b.db))
     ELSE Ok(b.db)

(* Returns false for an absent task and after a ROLLBACK, true otherwise.  *)
updateTask(d, taskId, updates) ==
  LET keys == {"title", "description", "assignee", "dueDate", "priority"} \cap DOMAIN updates
      column(k) == IF k = "dueDate" THEN "due_date" ELSE k
      taskUpdates == [c \in {column(k) : k \in keys} |->
                        IF c = "due_date" THEN updates["dueDate"] ELSE updates[c]]
      a == IF DOMAIN updates \ {"tags"} # {} THEN dbUpdateTask(d, taskId, taskUpdates)
           ELSE Ok(d)
      b == IF "tags" \in DOMAIN updates
           THEN IF Len(updates.tags) > 0
                THEN addTaskTags(deleteTaskTags(a.db, taskId), taskId, updates.tags)
                ELSE Ok(deleteTaskTags(a.db, taskId))
           ELSE a
  IN IF getTask(d, taskId) = {} THEN ReturnFalse(d)
     ELSE IF a.error
     THEN [ReturnFalse(rollback(d, a.db)) EXCEPT !.log = <<"BEGIN", "ROLLBACK">>]
     ELSE IF b.error
     THEN [ReturnFalse(rollback(d, b.db)) EXCEPT !.log = <<"BEGIN", "ROLLBACK">>]
     ELSE [Ok(b.db) EXCEPT !.log = <<"BEGIN", "COMMIT">>]

(* taskIds.forEach((taskId, index) => updateTaskOrder(taskId, index));    *)
(* index counts from 0; an id that cannot be bound throws.                 *)
RECURSIVE updateOrders(_, _, _)
updateOrders(d, taskIdList, index) ==
  IF taskIdList = <<>> THEN Ok(d)
  ELSE IF Head(taskIdList) = UnbindableId THEN Throw(d)
  ELSE updateOrders(updateTaskOrder(d, Head(taskIdList), index), Tail(taskIdList), index + 1)

(* Mutation of reorderTasks: positions counted from 1. *)
reorderTasksFromOne(d, columnId, taskIdList) ==
  LET r == updateOrders(d, taskIdList, 1)
  IN IF r.ok THEN r ELSE Throw(rollback(d, r.db))

(* Mutation of reorderTasks: an exception leaves the writes made so far. *)
reorderTasksNoRollback(d, columnId, taskIdList) ==
  LET r == updateOrders(d, taskIdList, 0)
  IN IF r.ok THEN r ELSE Throw(r.db)

(* BEGIN TRANSACTION, the updates, COMMIT; on an exception ROLLBACK and    *)
(* the exception is thrown again.                                          *)
reorderTasks(d, columnId, taskIdList) ==
  LET r == updateOrders(d, taskIdList, 0)
  IN IF r.ok THEN [r EXCEPT !.log = <<"BEGIN", "COMMIT">>]
     ELSE [Throw(rollback(d, r.db)) EXCEPT !.log = <<"BEGIN", "ROLLBACK">>]

(* Array.prototype.indexOf, 1-based here; 0 when absent. *)
indexOf(s, x) == IF x \in Range(s) THEN Min({i \in 1 .. Len(s) : s[i] = x}) ELSE 0

remove(s, i) == SubSeq(s, 1, i - 1) \o SubSeq(s, i + 1, Len(s))

(* Mutation of splice: the element goes after position start, not at it. *)
spliceAfter(s, start, x) ==
  LET at == IF start < 0 THEN Max({Len(s) + start + 1, 0}) ELSE Min({start + 1, Len(s)})
  IN SubSeq(s, 1, at) \o <<x>> \o SubSeq(s, at + 1, Len(s))

(* Array.prototype.splice(start, 0, x): a negative start counts from the   *)
(* end, and start is clamped to 0 .. length.                               *)
splice(s, start, x) ==
  LET at == IF start < 0 THEN Max({Len(s) + start, 0}) ELSE Min({start, Len(s)})
  IN SubSeq(s, 1, at) \o <<x>> \o SubSeq(s, at + 1, Len(s))

(* Mutation of moveTask: the tasks left in the column the task came from   *)
(* are renumbered 0 .. n-1 as well.                                         *)
moveTaskCompactingSource(d, taskId, newColumnId, hasIndex, newIndex) ==
  LET from == {t.column_id : t \in {x \in d.tasks : x.id = taskId}} \ {newColumnId}
      before(e, t) == {u \in e.tasks :
                         /\ u.column_id = t.column_id
                         /\ \/ u.order_index < t.order_index
                            \/ u.order_index = t.order_index /\ u.id < t.id}
      compact(e) == [e EXCEPT !.tasks =
                       {IF t.column_id \in from
                        THEN [t EXCEPT !.order_index = Cardinality(before(e, t))]
                        ELSE t : t \in @}]
      r == dbMoveTask(d, taskId, newColumnId)
  IN IF ~r.ok \/ ~hasIndex THEN {r}
     ELSE {LET ids == [i \in 1 .. Len(rows) |-> rows[i].id]
               currentIndex == indexOf(ids, taskId)
               rest == IF currentIndex # 0 THEN remove(ids, currentIndex) ELSE ids
               done == reorderTasks(r.db, newColumnId, splice(rest, newIndex, taskId))
           IN [done EXCEPT !.db = compact(@)]
           : rows \in getTasksByColumn(r.db, newColumnId)}

(* Mutation of moveTask: the request is seen after its first statement,   *)
(* before the tasks of the column are read and renumbered.                 *)
moveTaskFirstStep(d, taskId, newColumnId, hasIndex, newIndex) ==
  {dbMoveTask(d, taskId, newColumnId)}

moveTask(d, taskId, newColumnId, hasIndex, newIndex) ==
  LET r == dbMoveTask(d, taskId, newColumnId)
  IN IF ~r.ok \/ ~hasIndex THEN {r}
     ELSE {LET ids == [i \in 1 .. Len(rows) |-> rows[i].id]
               currentIndex == indexOf(ids, taskId)
               rest == IF currentIndex # 0 THEN remove(ids, currentIndex) ELSE ids
           IN reorderTasks(r.db, newColumnId, splice(rest, newIndex, taskId))
           : rows \in getTasksByColumn(r.db, newColumnId)}

(* String.prototype.split(','), on a sequence of characters. *)
RECURSIVE split(_)
split(str) ==
  IF "," \notin Range(str) THEN <<str>>
  ELSE LET i == indexOf(str, ",")
       IN <<SubSeq(str, 1, i - 1)>> \o split(SubSeq(str, i + 1, Len(str)))

(* dbTask.tags ? dbTask.tags.split(',') : []  (NULL and '' are falsy) *)
tagList(tags) == IF tags = NullTags \/ tags = <<>> THEN <<>> ELSE split(tags)

(* dbColumns.map(dbColumn => ... getTasksByColumn(dbColumn.id) ...) *)
RECURSIVE columnsWithTasks(_, _)
columnsWithTasks(d, cs) ==
  IF cs = <<>> THEN {<<>>}
  ELSE {<<[id |-> Head(cs).id, title |-> Head(cs).title, color |-> Head(cs).color,
           order |-> Head(cs).order_index,
           tasks |-> [k \in 1 .. Len(rows) |->
                        [id |-> rows[k].id, title |-> rows[k].title,
                         description |-> rows[k].description,
                         assignee |-> rows[k].assignee, dueDate |-> rows[k].due_date,
                         priority |-> rows[k].priority,
                         tags |-> tagList(rows[k].tags)]]]>> \o rest :
          rows \in getTasksByColumn(d, Head(cs).id), rest \in columnsWithTasks(d, Tail(cs))}

(* The possible results for an existing project; none for an absent one    *)
(* (the code returns null).                                                *)
getProjectWithColumns(d, projectId) ==
  UNION {
    {[id |-> p.id, name |-> p.name, description |-> p.description,
      createdAt |-> p.created_at, columns |-> columns]
     : columns \in columnsWithTasks(d, cs)}
    : <<p, cs>> \in getProject(d, projectId) \X getColumnsByProject(d, projectId)}

(***************************************************************************)
(* The HTTP routes.  Each request runs to completion; `last` records the   *)
(* request just handled: the service operation it called, whether the call *)
(* returned normally (ok: no exception, and not the boolean false) and how *)
(* many rows it inserted or deleted.                                       *)
(***************************************************************************)
(* Rows inserted or deleted between d and e, over the four tables. *)
rowsChanged(d, e) ==
  LET delta(A, B) == Cardinality((A \ B) \cup (B \ A))
  IN delta(projectIds(d), projectIds(e)) + delta(columnIds(d), columnIds(e))
       + delta(taskIds(d), taskIds(e)) + delta(d.task_tags, e.task_tags)

Request(op, ok, rows, status) == [op |-> op, ok |-> ok, rows |-> rows, status |-> status]

(* Mutation of status: a false or null from the service is not told apart. *)
statusWithoutNotFound(op, r) ==
  IF r.error THEN 500
  ELSE IF op \in {"createProjectWithDefaults", "createColumn", "createTask"} THEN 201
  ELSE 200

(* The status a route answers: 500 from its catch block, 404 where the     *)
(* service returned false or null, 201 for a creation and 200 otherwise.   *)
status(op, r) ==
  IF r.error THEN 500
  ELSE IF ~r.ok THEN 404
  ELSE IF op \in {"createProjectWithDefaults", "createColumn", "createTask"} THEN 201
  ELSE 200

(* The request called op with result r: the database is r.db. *)
Handled(op, r) ==
  /\ db' = r.db
  /\ last' = Request(op, r.ok, rowsChanged(db, r.db), status(op, r))
  /\ UNCHANGED now

(* if (!project) return res.status(404): a read changes no row. *)
readProject(d, projectId) ==
  IF getProjectWithColumns(d, projectId) = {} THEN ReturnFalse(d) ELSE Ok(d)

(* The ids a caller can name: those of the rows, and one that names no row. *)
idArgs(pool, used) == used \cup (IF pool \ used = {} THEN {} ELSE {generateId(pool, used)})

(* Sequences of at most n elements of S, none repeated. *)
ListsUpTo(S, n) ==
  {s \in UNION {[1 .. k -> S] : k \in 0 .. n} :
     \A i, j \in 1 .. Len(s) : i # j => s[i] # s[j]}

Init ==
  /\ db = EmptyDb
  /\ now = 0
  /\ last = Request("init", TRUE, 0, 0)

(* The clock of datetime('now') and new Date() advances. *)
Tick ==
  /\ now < MaxClock
  /\ now' = now + 1
  /\ UNCHANGED <<db, last>>

(* The process restarts: the KanbanDatabase constructor runs initTables. *)
Restart == Handled("restart", Ok(initTables(db)))

(* POST /api/projects *)
PostProject(projectData) ==
  Handled("createProjectWithDefaults", createProjectWithDefaults(db, projectData))

(* GET /api/projects/:id *)
GetProject(projectId) == Handled("getProjectWithColumns", readProject(db, projectId))

(* PUT /api/projects/:id *)
PutProject(projectId, updates) == Handled("updateProject", updateProject(db, projectId, updates))

(* PUT /api/columns/:id *)
PutColumn(columnId, updates) == Handled("updateColumn", updateColumn(db, columnId, updates))

(* DELETE /api/projects/:id *)
DeleteProject(projectId) == Handled("deleteProject", deleteProject(db, projectId))

(* POST /api/projects/:projectId/columns *)
PostColumn(columnData, projectId) ==
  Handled("createColumn", createColumn(db, columnData, projectId))

(* DELETE /api/columns/:id *)
DeleteColumn(columnId) == Handled("deleteColumn", deleteColumn(db, columnId))

(* POST /api/projects/:projectId/columns/:columnId/tasks *)
PostTask(taskData, columnId) == Handled("createTask", createTask(db, taskData, columnId))

(* PUT /api/tasks/:id *)
PutTask(taskId, updates) == Handled("updateTask", updateTask(db, taskId, updates))

(* DELETE /api/tasks/:id *)
DeleteTask(taskId) == Handled("deleteTask", deleteTask(db, taskId))

(* PATCH /api/tasks/:id/move *)
PatchMoveTask(taskId, columnId, hasIndex, newIndex) ==
  \E r \in moveTask(db, taskId, columnId, hasIndex, newIndex) : Handled("moveTask", r)

(* PATCH /api/columns/:columnId/tasks/reorder *)
PatchReorderTasks(columnId, taskIdList) ==
  Handled("reorderTasks", reorderTasks(db, columnId, taskIdList))

(***************************************************************************)
(* The requests of a scenario B: how many projects and tasks its callers   *)
(* create and the bodies they send.                                        *)
(***************************************************************************)
projectArgs == idArgs(ProjectIds, projectIds(db))
taskArgs == idArgs(TaskIds, taskIds(db))

(* The scenario's callers name the first B.columns columns of each project, *)
(* and one column that does not exist.                                      *)
columnArgs(B) ==
  {c.id : c \in {x \in db.columns :
                   Cardinality({y \in db.columns :
                                  y.project_id = x.project_id /\ y.id < x.id}) < B.columns}}
    \cup (IF ColumnIds \ columnIds(db) = {} THEN {}
          ELSE {generateId(ColumnIds, columnIds(db))})

ProjectRequests(B) ==
  \/ \E projectData \in B.projectData :
       /\ Cardinality(db.projects) < B.projects
       /\ Cardinality(ColumnIds \ columnIds(db)) >= Len(defaultColumns)
       /\ PostProject(projectData)
  \/ \E projectId \in projectArgs : DeleteProject(projectId)

ColumnRequests(B) ==
  \/ \E columnData \in B.columnData, projectId \in projectArgs :
       /\ ColumnIds \ columnIds(db) # {}
       /\ \A c \in db.columns : c.project_id = projectId => c.order_index < MaxColumnOrder
       /\ PostColumn(columnData, projectId)
  \/ \E columnId \in columnArgs(B) : DeleteColumn(columnId)

BoardUpdates(B) ==
  \/ \E projectId \in projectArgs : GetProject(projectId)
  \/ \E projectId \in projectArgs, updates \in B.projectUpdates : PutProject(projectId, updates)
  \/ \E columnId \in columnArgs(B), updates \in B.columnUpdates : PutColumn(columnId, updates)

TaskRequests(B) ==
  \/ \E taskData \in B.taskData, columnId \in columnArgs(B) :
       /\ Cardinality(db.tasks) < B.tasks
       /\ nextOrderIndex(db, columnId) <= MaxOrder
       /\ PostTask(taskData, columnId)
  \/ \E taskId \in taskArgs, updates \in B.updates : PutTask(taskId, updates)
  \/ \E taskId \in taskArgs : DeleteTask(taskId)

OrderRequests(B) ==
  \/ \E taskId \in taskArgs, columnId \in columnArgs(B) : PatchMoveTask(taskId, columnId, FALSE, 0)
  \/ \E taskId \in taskArgs, columnId \in columnArgs(B), newIndex \in B.indexes :
       PatchMoveTask(taskId, columnId, TRUE, newIndex)
  \/ \E columnId \in columnArgs(B), taskIdList \in ListsUpTo(taskArgs \cup B.badIds, B.listLen) :
       PatchReorderTasks(columnId, taskIdList)

Task(title, priority) ==
  [title |-> title, description |-> Null, assignee |-> Null, dueDate |-> Null,
   priority |-> priority]

(* A request body with none of the fields *)
NoFields == <<>>

(* Tag names: two plain ones, one holding the separator, the empty string. *)
TagNames == {<<"a">>, <<"b">>, <<"a", ",", "b">>, <<>>}
TagLists == UNION {[1 .. k -> TagNames] : k \in 0 .. MaxTags}

(* One board, tasks without tags, every reorder list and index. *)
Ordering ==
  [projects |-> 1, columns |-> OrderColumns, tasks |-> MaxTasks,
   projectData |-> {[name |-> "P", description |-> Null]},
   taskData |-> {Task("A", "low") @@ [tags |-> <<>>]},
   updates |-> {[title |-> "A"]},
   indexes |-> -1 .. MaxTasks - 1,
   listLen |-> MaxTasks, badIds |-> {}]

(* Two boards created and deleted, a few tagged tasks. *)
Boards ==
  [projects |-> MaxProjects, columns |-> BoardColumns, tasks |-> BoardTasks,
   projectData |-> {[name |-> "P", description |-> Null], [name |-> Null, description |-> Null]},
   projectUpdates |-> {NoFields, [name |-> "Q"], [name |-> Null]},
   columnUpdates |-> {NoFields, [title |-> "To Do"], [color |-> Null]},
   taskData |-> {Task("A", "low") @@ [tags |-> << <<"a">> >>]},
   updates |-> {NoFields, [tags |-> <<>>], [title |-> Null]},
   indexes |-> {0},
   listLen |-> 1, badIds |-> {}]

(* One board, its columns created and deleted, a few tagged tasks. *)
Columns ==
  [projects |-> 1, columns |-> Len(defaultColumns) + 1, tasks |-> ColumnTasks,
   projectData |-> {[name |-> "P", description |-> Null]},
   columnData |-> {[title |-> "C", color |-> "c"]},
   projectUpdates |-> {[description |-> Null]},
   columnUpdates |-> {[title |-> "C"]},
   taskData |-> {Task("A", "low") @@ [tags |-> << <<"a">> >>]},
   updates |-> {[tags |-> <<>>]},
   indexes |-> {0},
   listLen |-> 1, badIds |-> {}]

(* One column, tasks created and updated with every tag list. *)
Tagging ==
  [projects |-> 1, columns |-> 1, tasks |-> TagTasks,
   projectData |-> {[name |-> "P", description |-> Null]},
   taskData |-> {Task("A", "low") @@ [tags |-> T] : T \in TagLists} \cup {Task("A", "low")},
   updates |-> {[tags |-> T] : T \in TagLists},
   indexes |-> {0},
   listLen |-> 1, badIds |-> {}]

(* One column filled with tasks; updates and reorders that fail midway. *)
Failing ==
  [projects |-> 1, columns |-> 1, tasks |-> MaxTasks,
   projectData |-> {[name |-> "P", description |-> Null]},
   taskData |-> {Task("A", "low") @@ [tags |-> << <<"a">> >>], Task("A", "low")},
   updates |-> {[tags |-> <<>>],
                [title |-> "B", tags |-> << <<"b">>, Unbindable >>],
                [title |-> Null, tags |-> <<>>]},
   indexes |-> {0},
   listLen |-> FailingListLen, badIds |-> {UnbindableId}]

Spec ==
  Init /\ [][Restart \/ ProjectRequests(Boards) \/ BoardUpdates(Boards)
             \/ TaskRequests(Boards) \/ OrderRequests(Boards)]_vars

SpecColumns ==
  Init /\ [][Restart \/ ProjectRequests(Columns) \/ ColumnRequests(Columns)
             \/ BoardUpdates(Columns) \/ TaskRequests(Columns) \/ OrderRequests(Columns)]_vars

SpecOrder ==
  Init /\ [][Tick \/ Restart \/ ProjectRequests(Ordering) \/ TaskRequests(Ordering)
             \/ OrderRequests(Ordering)]_vars

SpecFailures ==
  Init /\ [][Restart \/ ProjectRequests(Failing) \/ TaskRequests(Failing)
             \/ OrderRequests(Failing)]_vars

SpecTags ==
  Init /\ [][Tick \/ Restart \/ ProjectRequests(Tagging) \/ TaskRequests(Tagging)]_vars

(* Two columns, tagged tasks, update bodies with the fields of a task and  *)
(* with keys that are no field of the update.                               *)
Fields ==
  [projects |-> 1, columns |-> FieldColumns, tasks |-> FieldTasks,
   projectData |-> {[name |-> "P", description |-> Null]},
   taskData |-> {Task("A", "low") @@ [tags |-> << <<"a">> >>]},
   updates |-> {[title |-> "B", priority |-> "high"],
                [dueDate |-> "d", tags |-> << <<"b">> >>],
                [order_index |-> 2],
                [title |-> "C", column_id |-> FieldColumns, order_index |-> 2, created_at |-> 1],
                [title |-> "C", columnId |-> FieldColumns, orderIndex |-> 2, createdAt |-> 1]},
   indexes |-> {0},
   listLen |-> 1, badIds |-> {}]

(* One board, tagged tasks in two columns; columns and tasks deleted. *)
Deleting ==
  [projects |-> 1, columns |-> DeleteColumns, tasks |-> DeleteTasks,
   projectData |-> {[name |-> "P", description |-> Null]},
   taskData |-> {Task("A", "low") @@ [tags |-> << <<"a">>, <<"b">> >>]},
   updates |-> {[tags |-> <<>>]},
   indexes |-> {0},
   listLen |-> 1, badIds |-> {}]

SpecDeletes ==
  Init /\ [][Restart \/ ProjectRequests(Deleting) \/ TaskRequests(Deleting)
             \/ \E columnId \in columnArgs(Deleting) : DeleteColumn(columnId)]_vars

SpecFields ==
  Init /\ [][Restart \/ ProjectRequests(Fields) \/ TaskRequests(Fields)]_vars

(***************************************************************************)
(* Properties.  A property of an operation is stated on every reachable    *)
(* state: whatever the request's arguments, the operation applied to the   *)
(* state has the stated result.                                            *)
(***************************************************************************)

(* The id orders in which a read of the column can list its tasks. *)
readIds(d, columnId) ==
  {[i \in 1 .. Len(rows) |-> rows[i].id] : rows \in getTasksByColumn(d, columnId)}

(* The same through getProjectWithColumns, for a column of project p. *)
treeIds(d, p, columnId) ==
  {[k \in 1 .. Len(col.tasks) |-> col.tasks[k].id] :
     col \in UNION {{x \in Range(tree.columns) : x.id = columnId} :
                      tree \in getProjectWithColumns(d, p)}}

projectOf(d, columnId) == (CHOOSE c \in d.columns : c.id = columnId).project_id
taskRow(d, taskId) == CHOOSE t \in d.tasks : t.id = taskId
orderIndexes(d, columnId) == {t.order_index : t \in tasksIn(d, columnId)}

(* s without its elements equal to x *)
without(s, x) == SelectSeq(s, LAMBDA y : y # x)

(* L with x put at 0-based position k *)
InsertAt(L, k, x) ==
  [j \in 1 .. Len(L) + 1 |-> IF j <= k THEN L[j] ELSE IF j = k + 1 THEN x ELSE L[j - 1]]

(* order_index takes each of 0 .. n-1 once over the n tasks of the column *)
Dense(d, columnId) ==
  \A k \in 0 .. Cardinality(tasksIn(d, columnId)) - 1 :
    Cardinality({t \in tasksIn(d, columnId) : t.order_index = k}) = 1

(* C1: after reorderTasks(columnId, ids), ids any permutation of the ids   *)
(* of the column's tasks, a read of the column (getTasksByColumn and       *)
(* getProjectWithColumns) lists the tasks in exactly the order of ids, and *)
(* the task at position k of ids (from 0) has orderIndex k.                *)
C1_ReorderReadsInListOrder ==
  \A columnId \in columnIds(db) :
    \A ids \in Perms({t.id : t \in tasksIn(db, columnId)}) :
      LET r == reorderTasks(db, columnId, ids)
      IN /\ r.ok
         /\ readIds(r.db, columnId) = {ids}
         /\ treeIds(r.db, projectOf(db, columnId), columnId) = {ids}
         /\ \A k \in 1 .. Len(ids) : taskRow(r.db, ids[k]).order_index = k - 1

(* A reorder has put three tasks in the order t3, t1, t2. *)
C1_Witness ==
  /\ last.op = "reorderTasks" /\ last.ok
  /\ \E columnId \in columnIds(db) :
       /\ readIds(db, columnId) = {<<3, 1, 2>>}
       /\ \A k \in 1 .. 3 : taskRow(db, <<3, 1, 2>>[k]).order_index = k - 1

(* C2: for an existing task t, an existing column c whose other tasks read *)
(* in order L, and newIndex i >= 0, moveTask(t, c, i) sets t's column to c *)
(* and a read of c then yields L with t at position min(i, Len(L)).        *)
C2_MoveInsertsAtIndex ==
  \A taskId \in taskIds(db), columnId \in columnIds(db), newIndex \in 0 .. MaxTasks + 1 :
    \A r \in moveTask(db, taskId, columnId, TRUE, newIndex) :
      /\ r.ok
      /\ taskRow(r.db, taskId).column_id = columnId
      /\ \E L \in {without(s, taskId) : s \in readIds(db, columnId)} :
           readIds(r.db, columnId) = {InsertAt(L, Min({newIndex, Len(L)}), taskId)}

(* A move has put a task between two others of its column. *)
C2_Witness ==
  /\ last.op = "moveTask" /\ last.ok
  /\ \E columnId \in columnIds(db) :
       /\ readIds(db, columnId) = {<<1, 3, 2>>}
       /\ Dense(db, columnId)

(* C3: createTask into column c gives the new task orderIndex 0 when c has *)
(* no task and otherwise 1 + the largest orderIndex in c; the new task is  *)
(* read last in c, and a second creation into c gets a larger orderIndex.  *)
C3_CreateAppends ==
  \A columnId \in columnIds(db), taskData \in Ordering.taskData :
    Cardinality(db.tasks) + 2 <= MaxTasks =>
      LET id1 == generateId(TaskIds, taskIds(db))
          r1 == createTask(db, taskData, columnId)
          id2 == generateId(TaskIds, taskIds(r1.db))
          r2 == createTask(r1.db, taskData, columnId)
      IN /\ r1.ok /\ r2.ok
         /\ taskRow(r1.db, id1).order_index =
              IF tasksIn(db, columnId) = {} THEN 0
              ELSE 1 + Max(orderIndexes(db, columnId))
         /\ \A s \in readIds(r1.db, columnId) : s[Len(s)] = id1
         /\ \A s \in readIds(r2.db, columnId) : s[Len(s)] = id2
         /\ taskRow(r2.db, id2).order_index > taskRow(r2.db, id1).order_index

(* A task was created into a column whose only task had orderIndex 1. *)
C3_Witness ==
  /\ last.op = "createTask" /\ last.ok
  /\ \E columnId \in columnIds(db) :
       /\ orderIndexes(db, columnId) = {1, 2}
       /\ \A s \in readIds(db, columnId) : taskRow(db, s[Len(s)]).created_at = now

(* The referential integrity of the three foreign keys *)
RefIntegrity(d) ==
  /\ \A c \in d.columns : c.project_id \in projectIds(d)
  /\ \A t \in d.tasks : t.column_id \in columnIds(d)
  /\ \A g \in d.task_tags : g.task_id \in taskIds(d)

(* C4: createProjectWithDefaults(name, description) creates one project    *)
(* and exactly three columns of it, ("To Do", 1), ("In Progress", 2),      *)
(* ("Done", 3), with no task; getProjectWithColumns reads the project back *)
(* with exactly these three columns in that order.                         *)
C4_DefaultColumns ==
  \A projectData \in {x \in Boards.projectData : x.name # Null} :
    (ProjectIds \ projectIds(db) # {} /\ Cardinality(ColumnIds \ columnIds(db)) >= 3) =>
      LET p == generateId(ProjectIds, projectIds(db))
          r == createProjectWithDefaults(db, projectData)
          created == r.db.columns \ db.columns
      IN /\ r.ok
         /\ db.projects \subseteq r.db.projects
         /\ Cardinality(r.db.projects \ db.projects) = 1
         /\ \A x \in r.db.projects \ db.projects : x.id = p /\ x.name = projectData.name
         /\ db.columns \subseteq r.db.columns
         /\ Cardinality(created) = 3
         /\ \A c \in created : c.project_id = p /\ tasksIn(r.db, c.id) = {}
         /\ {<<c.title, c.order_index>> : c \in {x \in r.db.columns : x.project_id = p}}
              = {<<"To Do", 1>>, <<"In Progress", 2>>, <<"Done", 3>>}
         /\ r.db.tasks = db.tasks /\ r.db.task_tags = db.task_tags
         /\ getProjectWithColumns(r.db, p) # {}
         /\ \A tree \in getProjectWithColumns(r.db, p) :
              [k \in 1 .. Len(tree.columns) |->
                 <<tree.columns[k].title, tree.columns[k].order, tree.columns[k].tasks>>]
                = << <<"To Do", 1, <<>>>>, <<"In Progress", 2, <<>>>>, <<"Done", 3, <<>>>> >>

(* A second project was just created next to one that holds a task. *)
C4_Witness ==
  /\ last.op = "createProjectWithDefaults" /\ last.ok /\ last.rows = 4
  /\ Cardinality(db.projects) = 2 /\ Cardinality(db.columns) = 6
  /\ db.tasks # {}
  /\ \E p \in projectIds(db) : \A tree \in getProjectWithColumns(db, p) :
       [k \in 1 .. Len(tree.columns) |-> tree.columns[k].order] = <<1, 2, 3>>
         /\ \A k \in 1 .. Len(tree.columns) : tree.columns[k].tasks = <<>>

(* C5: deleteProject(p) removes the project row, all its columns, all      *)
(* their tasks and every tag row of those tasks, and no row of any other   *)
(* project.                                                                *)
C5_DeleteProjectCascades ==
  \A projectId \in projectIds(db) :
    LET r == deleteProject(db, projectId)
        cols == {c \in db.columns : c.project_id = projectId}
        tsks == {t \in db.tasks : t.column_id \in {c.id : c \in cols}}
        tags == {g \in db.task_tags : g.task_id \in {t.id : t \in tsks}}
    IN /\ r.ok
       /\ r.db.projects = {x \in db.projects : x.id # projectId}
       /\ r.db.columns = db.columns \ cols
       /\ r.db.tasks = db.tasks \ tsks
       /\ r.db.task_tags = db.task_tags \ tags

(* A project with three columns, a task and its tag was deleted; the task  *)
(* and the tag of the other project are still there.                       *)
C5_Witness ==
  /\ last.op = "deleteProject" /\ last.ok /\ last.rows = 6
  /\ Cardinality(db.projects) = 1 /\ Cardinality(db.columns) = 3
  /\ Cardinality(db.tasks) = 1 /\ Cardinality(db.task_tags) = 1
  /\ RefIntegrity(db)

(* C6: in every reachable state every column row references an existing   *)
(* project, every task row an existing column and every tag row an         *)
(* existing task; createColumn for a non-existent project, createTask into *)
(* a non-existent column and moveTask to a non-existent column add or      *)
(* change no row.                                                          *)
C6_ReferentialIntegrity ==
  /\ RefIntegrity(db)
  /\ \A projectId \in ProjectIds \ projectIds(db), columnData \in Columns.columnData :
       ColumnIds \ columnIds(db) # {} =>
         LET r == createColumn(db, columnData, projectId) IN ~r.ok /\ r.db = db
  /\ \A columnId \in ColumnIds \ columnIds(db), taskData \in Columns.taskData :
       TaskIds \ taskIds(db) # {} =>
         LET r == createTask(db, taskData, columnId) IN ~r.ok /\ r.db = db
  /\ \A columnId \in ColumnIds \ columnIds(db), taskId \in taskIds(db),
        hasIndex \in BOOLEAN :
       \A r \in moveTask(db, taskId, columnId, hasIndex, 0) : ~r.ok /\ r.db = db

(* A move of a tagged task to a column that does not exist was refused. *)
C6_Witness ==
  /\ last.op = "moveTask" /\ ~last.ok /\ last.rows = 0
  /\ db.tasks # {} /\ db.task_tags # {}
  /\ Cardinality(db.columns) > 3

(* C7: every moveTask(taskId, newColumnId, newIndex) that returns without  *)
(* error leaves the destination column's orderIndex values exactly         *)
(* 0 .. n-1, each used once.                                               *)
C7_MoveLeavesDense ==
  \A taskId \in taskArgs, columnId \in columnIds(db), newIndex \in -1 .. MaxTasks + 1 :
    \A r \in moveTask(db, taskId, columnId, TRUE, newIndex) :
      r.ok => Dense(r.db, columnId)

(* C8: after any reorderTasks(columnId, orderedTaskIds) that returns       *)
(* without error, the column's orderIndex values are exactly 0 .. n-1,     *)
(* each used once.                                                         *)
C8_ReorderLeavesDense ==
  \A columnId \in columnIds(db), taskIdList \in ListsUpTo(taskArgs, MaxTasks) :
    LET r == reorderTasks(db, columnId, taskIdList)
    IN r.ok => Dense(r.db, columnId)

(* C9: for an existing task, updateTask(id, {tags: T}) makes the task's   *)
(* tag set exactly the set of T, whatever it was, and leaves the tags of   *)
(* every other task unchanged; with T = [] the task has no tag, and a      *)
(* second call leaves it with no tag again.                                *)
C9_UpdateReplacesTags ==
  \A taskId \in taskIds(db), T \in TagLists :
    LET r == updateTask(db, taskId, [tags |-> T])
        e1 == updateTask(db, taskId, [tags |-> <<>>])
        e2 == updateTask(e1.db, taskId, [tags |-> <<>>])
    IN /\ r.ok
       /\ tagsOf(r.db, taskId) = Range(T)
       /\ \A other \in taskIds(db) \ {taskId} : tagsOf(r.db, other) = tagsOf(db, other)
       /\ r.db.tasks = db.tasks
       /\ e1.ok /\ tagsOf(e1.db, taskId) = {}
       /\ e2.ok /\ tagsOf(e2.db, taskId) = {} /\ e2.db = e1.db

(* An update took the two tags of a task away; the other task keeps its two. *)
C9_Witness ==
  /\ last.op = "updateTask" /\ last.ok /\ last.rows = 2
  /\ \E t \in taskIds(db) : tagsOf(db, t) = {}
  /\ \E t \in taskIds(db) : Cardinality(tagsOf(db, t)) = 2

(* C10: for every tag list T supplied to createTask, the tag list of the   *)
(* new task in getProjectWithColumns (the comma-joined string split on     *)
(* comma) is, as a set, the set of T.                                      *)
C10_TagRoundTrip ==
  \A columnId \in columnIds(db), T \in TagLists :
    TaskIds \ taskIds(db) # {} =>
      LET taskId == generateId(TaskIds, taskIds(db))
          r == createTask(db, Task("A", "low") @@ [tags |-> T], columnId)
      IN /\ r.ok
         /\ \A tree \in getProjectWithColumns(r.db, projectOf(db, columnId)) :
              \A col \in Range(tree.columns) : \A task \in Range(col.tasks) :
                task.id = taskId => Range(task.tags) = Range(T)

(* C11: for updateProject, updateColumn and updateTask on an existing     *)
(* entity, a call with an empty fields object returns false (the           *)
(* not-found answer of the route) and changes no row.                      *)
C11_EmptyUpdateReturnsFalse ==
  /\ \A projectId \in projectIds(db) :
       LET r == updateProject(db, projectId, NoFields)
       IN status("updateProject", r) = 404 /\ r.db = db
  /\ \A columnId \in columnIds(db) :
       LET r == updateColumn(db, columnId, NoFields)
       IN status("updateColumn", r) = 404 /\ r.db = db
  /\ \A taskId \in taskIds(db) :
       LET r == updateTask(db, taskId, NoFields)
       IN status("updateTask", r) = 404 /\ r.db = db

(* The valid bodies of a PUT that supply at least one updatable field *)
ProjectFields == {[name |-> "Q"], [description |-> "D"], [name |-> "Q", description |-> Null]}
ColumnFields == {[title |-> "T"], [color |-> "c"], [title |-> "T", color |-> "c"]}
TaskFields ==
  {[title |-> "B"], [priority |-> "high"], [dueDate |-> Null], [tags |-> <<>>],
   [title |-> "B", tags |-> << <<"b">> >>]}

(* C12: GET /api/projects/:id and PUT and DELETE on projects, columns and  *)
(* tasks answer 404 for an absent id and change nothing; a DELETE repeated *)
(* after a successful one answers 404; for an existing id a DELETE, and a  *)
(* PUT supplying at least one updatable field, answers 200.                *)
C12_AbsentIdsAnswer404 ==
  /\ \A projectId \in ProjectIds \ projectIds(db) :
       /\ status("getProjectWithColumns", readProject(db, projectId)) = 404
       /\ \A updates \in ProjectFields \cup {NoFields, [name |-> Null]} :
            LET r == updateProject(db, projectId, updates)
            IN status("updateProject", r) = 404 /\ r.db = db
       /\ LET r == deleteProject(db, projectId)
          IN status("deleteProject", r) = 404 /\ r.db = db
  /\ \A columnId \in ColumnIds \ columnIds(db) :
       /\ \A updates \in ColumnFields \cup {NoFields, [title |-> Null]} :
            LET r == updateColumn(db, columnId, updates)
            IN status("updateColumn", r) = 404 /\ r.db = db
       /\ LET r == deleteColumn(db, columnId)
          IN status("deleteColumn", r) = 404 /\ r.db = db
  /\ \A taskId \in TaskIds \ taskIds(db) :
       /\ \A updates \in TaskFields \cup {NoFields, [title |-> Null]} :
            LET r == updateTask(db, taskId, updates)
            IN status("updateTask", r) = 404 /\ r.db = db
       /\ LET r == deleteTask(db, taskId)
          IN status("deleteTask", r) = 404 /\ r.db = db
  /\ \A projectId \in projectIds(db) :
       /\ \A updates \in ProjectFields :
            status("updateProject", updateProject(db, projectId, updates)) = 200
       /\ LET r == deleteProject(db, projectId)
              again == deleteProject(r.db, projectId)
          IN /\ status("deleteProject", r) = 200
             /\ status("deleteProject", again) = 404 /\ again.db = r.db
             /\ status("getProjectWithColumns", readProject(r.db, projectId)) = 404
  /\ \A columnId \in columnIds(db) :
       /\ \A updates \in ColumnFields :
            status("updateColumn", updateColumn(db, columnId, updates)) = 200
       /\ LET r == deleteColumn(db, columnId)
              again == deleteColumn(r.db, columnId)
          IN /\ status("deleteColumn", r) = 200
             /\ status("deleteColumn", again) = 404 /\ again.db = r.db
  /\ \A taskId \in taskIds(db) :
       /\ \A updates \in TaskFields :
            status("updateTask", updateTask(db, taskId, updates)) = 200
       /\ LET r == deleteTask(db, taskId)
              again == deleteTask(r.db, taskId)
          IN /\ status("deleteTask", r) = 200
             /\ status("deleteTask", again) = 404 /\ again.db = r.db

(* A DELETE on a project id that names no row was answered 404 while      *)
(* another project, with a task, is there.                                 *)
C12_Witness ==
  /\ last.op = "deleteProject" /\ last.status = 404 /\ last.rows = 0
  /\ Cardinality(db.projects) = 1 /\ db.tasks # {}

(* C13: every storage failure raised while a request is handled is        *)
(* answered with status 500, the operation's writes rolled back, on every  *)
(* write endpoint, PUT /api/tasks/:id included when the field update or    *)
(* the tag replacement fails.                                              *)
C13_StorageFailureAnswers500 ==
  /\ \A projectId \in projectIds(db) :
       LET r == updateProject(db, projectId, [name |-> Null])
       IN status("updateProject", r) = 500 /\ r.db = db
  /\ \A columnId \in columnIds(db) :
       LET r == updateColumn(db, columnId, [title |-> Null])
       IN status("updateColumn", r) = 500 /\ r.db = db
  /\ \A projectId \in ProjectIds \ projectIds(db) :
       ColumnIds \ columnIds(db) # {} =>
         LET r == createColumn(db, [title |-> "C", color |-> "c"], projectId)
         IN status("createColumn", r) = 500 /\ r.db = db
  /\ \A columnId \in ColumnIds \ columnIds(db) :
       TaskIds \ taskIds(db) # {} =>
         LET r == createTask(db, Task("A", "low") @@ [tags |-> <<>>], columnId)
         IN status("createTask", r) = 500 /\ r.db = db
  /\ \A taskId \in taskIds(db), columnId \in ColumnIds \ columnIds(db) :
       \A r \in moveTask(db, taskId, columnId, TRUE, 0) :
         status("moveTask", r) = 500 /\ r.db = db
  /\ \A columnId \in columnIds(db), taskId \in taskIds(db) :
       LET r == reorderTasks(db, columnId, <<taskId, UnbindableId>>)
       IN status("reorderTasks", r) = 500 /\ r.db = db
  /\ \A taskId \in taskIds(db) :
       \A updates \in {[title |-> Null], [priority |-> "urgent"],
                       [tags |-> << <<"b">>, Unbindable >>]} :
         LET r == updateTask(db, taskId, updates)
         IN status("updateTask", r) = 500 /\ r.db = db

(* C14: createColumn(data, projectId) on an existing project gives the new *)
(* column order 1 + the largest order of the project's columns (1 when it  *)
(* has none), so the new column is read last among the project's columns.  *)
C14_NewColumnIsLast ==
  \A projectId \in projectIds(db), columnData \in Columns.columnData :
    ColumnIds \ columnIds(db) # {} =>
      LET columnId == generateId(ColumnIds, columnIds(db))
          own == {c \in db.columns : c.project_id = projectId}
          r == createColumn(db, columnData, projectId)
      IN /\ r.ok
         /\ r.db.columns \ db.columns =
              {[id |-> columnId, project_id |-> projectId, title |-> columnData.title,
                color |-> columnData.color,
                order_index |-> IF own = {} THEN 1
                                ELSE 1 + Max({c.order_index : c \in own})]}
         /\ db.columns \subseteq r.db.columns
         /\ \A s \in getColumnsByProject(r.db, projectId) : s[Len(s)].id = columnId
         /\ \A tree \in getProjectWithColumns(r.db, projectId) :
              tree.columns[Len(tree.columns)].id = columnId

(* A column was created in a project that had lost its first column: the   *)
(* orders are 2, 3, 4 and the new column is read last.                     *)
C14_Witness ==
  /\ last.op = "createColumn" /\ last.status = 201 /\ last.rows = 1
  /\ \E projectId \in projectIds(db) :
       /\ {c.order_index : c \in {x \in db.columns : x.project_id = projectId}} = {2, 3, 4}
       /\ \A s \in getColumnsByProject(db, projectId) :
            s[Len(s)].title = "C" /\ s[Len(s)].order_index = 4

(* C15: getProjectWithColumns(p) for an existing project returns exactly   *)
(* the columns of p in ascending orderIndex, under each column exactly the *)
(* tasks of that column in ascending (orderIndex, createdAt), and every    *)
(* task of the project under exactly one column.                           *)
C15_ReadIsOrderedAndComplete ==
  \A projectId \in projectIds(db) :
    /\ getProjectWithColumns(db, projectId) # {}
    /\ \A tree \in getProjectWithColumns(db, projectId) :
         LET cols == tree.columns
             own == {c \in db.columns : c.project_id = projectId}
             row(k, i) == taskRow(db, cols[k].tasks[i].id)
         IN /\ Len(cols) = Cardinality(own)
            /\ {[id |-> cols[k].id, order_index |-> cols[k].order] : k \in 1 .. Len(cols)}
                 = {[id |-> c.id, order_index |-> c.order_index] : c \in own}
            /\ \A i, j \in 1 .. Len(cols) : i < j => cols[i].order <= cols[j].order
            /\ \A k \in 1 .. Len(cols) :
                 /\ Len(cols[k].tasks) = Cardinality(tasksIn(db, cols[k].id))
                 /\ {cols[k].tasks[i].id : i \in 1 .. Len(cols[k].tasks)}
                      = {t.id : t \in tasksIn(db, cols[k].id)}
                 /\ \A i, j \in 1 .. Len(cols[k].tasks) :
                      i < j =>
                        \/ row(k, i).order_index < row(k, j).order_index
                        \/ /\ row(k, i).order_index = row(k, j).order_index
                           /\ row(k, i).created_at <= row(k, j).created_at
            /\ \A t \in db.tasks :
                 t.column_id \in {c.id : c \in own} =>
                   Cardinality({<<k, i>> \in (1 .. Len(cols)) \X (1 .. MaxTasks) :
                                  i <= Len(cols[k].tasks) /\ cols[k].tasks[i].id = t.id}) = 1

(* Two tasks of one column have the same orderIndex and different         *)
(* createdAt, a third task is in another column.                           *)
C15_Witness ==
  /\ Cardinality(db.tasks) = 3
  /\ Cardinality({t.column_id : t \in db.tasks}) = 2
  /\ \E a, b \in db.tasks :
       /\ a.column_id = b.column_id /\ a.order_index = b.order_index
       /\ a.created_at < b.created_at
       /\ \A s \in readIds(db, a.column_id) : indexOf(s, a.id) < indexOf(s, b.id)

FailingUpdates ==
  {[title |-> "B", tags |-> << <<"b">>, Unbindable >>],
   [description |-> "D", tags |-> <<Unbindable>>],
   [title |-> Null, tags |-> <<>>],
   [title |-> "B", priority |-> "urgent"]}

(* C17: updateTask is all-or-nothing: when the field update succeeds and   *)
(* the tag replacement then fails, or another exception occurs inside the  *)
(* transaction, the call reports failure and the task's fields and tag set *)
(* are what they were before the call.                                     *)
C17_UpdateAllOrNothing ==
  \A taskId \in taskIds(db), updates \in FailingUpdates :
    LET r == updateTask(db, taskId, updates)
    IN /\ ~r.ok
       /\ taskRow(r.db, taskId) = taskRow(db, taskId)
       /\ tagsOf(r.db, taskId) = tagsOf(db, taskId)
       /\ r.db = db

(* An update failed when every task id was in use, so that it named a      *)
(* task, and a tagged task is there.                                       *)
C17_Witness ==
  /\ last.op = "updateTask" /\ ~last.ok /\ last.rows = 0
  /\ taskIds(db) = TaskIds
  /\ \E t \in taskIds(db) : tagsOf(db, t) # {}

(* C18: a batch reorder (updateTasksOrder, updateColumnsOrder, the         *)
(* service's reorderTasks) is all-or-nothing: if applying an element       *)
(* fails, no orderIndex written by the call persists and the error is      *)
(* thrown to the caller; if none fails, every pair of the list is applied. *)
C18_BatchAllOrNothing ==
  /\ \A taskIdList \in ListsUpTo(TaskIds \cup {UnbindableId}, MaxTasks) :
       \A columnId \in columnIds(db) :
         LET r == reorderTasks(db, columnId, taskIdList)
         IN IF UnbindableId \in Range(taskIdList)
            THEN r.error /\ r.db = db
            ELSE /\ r.ok
                 /\ \A k \in 1 .. Len(taskIdList) :
                      taskIdList[k] \in taskIds(db) =>
                        taskRow(r.db, taskIdList[k]).order_index = k - 1
  /\ \A ids \in ListsUpTo(TaskIds \cup {UnbindableId}, 2) :
       \A os \in [1 .. Len(ids) -> 0 .. MaxOrder] :
         LET r == updateTasksOrder(db, [k \in 1 .. Len(ids) |->
                                          [taskId |-> ids[k], order |-> os[k]]])
         IN IF UnbindableId \in Range(ids)
            THEN r.error /\ r.db = db
            ELSE /\ r.ok
                 /\ \A k \in 1 .. Len(ids) :
                      ids[k] \in taskIds(db) => taskRow(r.db, ids[k]).order_index = os[k]
  /\ \A ids \in ListsUpTo(columnIds(db) \cup {UnbindableId}, 2) :
       \A os \in [1 .. Len(ids) -> 0 .. MaxOrder] :
         LET r == updateColumnsOrder(db, [k \in 1 .. Len(ids) |->
                                            [columnId |-> ids[k], order |-> os[k]]])
         IN IF UnbindableId \in Range(ids)
            THEN r.error /\ r.db = db
            ELSE /\ r.ok
                 /\ \A k \in 1 .. Len(ids) :
                      \E c \in r.db.columns : c.id = ids[k] /\ c.order_index = os[k]

(* A reorder failed midway on a column of two tasks; their orderIndex      *)
(* values are the ones of before, 1 and 2.                                 *)
C18_Witness ==
  /\ last.op = "reorderTasks" /\ last.status = 500
  /\ \E columnId \in columnIds(db) : orderIndexes(db, columnId) = {1, 2}

(* C19: createTask with task data in which no tag list is supplied        *)
(* inserts the task with zero tags, skips the tag insertion and returns    *)
(* the created task (HTTP 201).                                            *)
C19_CreateWithoutTagList ==
  \A columnId \in columnIds(db) :
    TaskIds \ taskIds(db) # {} =>
      LET taskId == generateId(TaskIds, taskIds(db))
          r == createTask(db, Task("A", "low"), columnId)
      IN /\ taskId \in taskIds(r.db)
         /\ tagsOf(r.db, taskId) = {}
         /\ r.db.task_tags = db.task_tags
         /\ r.ok /\ status("createTask", r) = 201

(* C20: moveTask(taskId, newColumnId) without newIndex, on an existing     *)
(* task and an existing column, changes only that task's column reference: *)
(* the orderIndex of every task and the column of every other task are     *)
(* unchanged.                                                              *)
C20_MoveWithoutIndex ==
  \A taskId \in taskIds(db), columnId \in columnIds(db) :
    \A r \in moveTask(db, taskId, columnId, FALSE, 0) :
      /\ r.ok
      /\ r.db.tasks = {IF t.id = taskId THEN [t EXCEPT !.column_id = columnId] ELSE t
                         : t \in db.tasks}
      /\ r.db.projects = db.projects /\ r.db.columns = db.columns
      /\ r.db.task_tags = db.task_tags

(* After a move every task id is in use and all tasks are in one column,   *)
(* two of them with the same orderIndex: a move with newIndex would have   *)
(* left that column dense, so the move was one without newIndex.           *)
C20_Witness ==
  /\ last.op = "moveTask" /\ last.ok
  /\ taskIds(db) = TaskIds
  /\ Cardinality({t.column_id : t \in db.tasks}) = 1
  /\ \E a, b \in db.tasks : a.id # b.id /\ a.order_index = b.order_index

(* C21: updateTask changes, in the row of its task, only the fields the    *)
(* body supplies among title, description, assignee, dueDate, priority,    *)
(* and the tags of the task when the body has tags; whatever other keys    *)
(* the body holds, column_id, order_index and created_at of every task     *)
(* stay, and so does every other row.                                      *)
C21_UpdateChangesSuppliedFields ==
  \A taskId \in taskArgs, updates \in Fields.updates :
    LET r == updateTask(db, taskId, updates)
        key(c) == IF c = "due_date" THEN "dueDate" ELSE c
    IN /\ r.db.projects = db.projects /\ r.db.columns = db.columns
       /\ taskIds(r.db) = taskIds(db)
       /\ \A t \in db.tasks :
            LET u == taskRow(r.db, t.id)
            IN /\ u.column_id = t.column_id
               /\ u.order_index = t.order_index
               /\ u.created_at = t.created_at
               /\ t.id # taskId => u = t
               /\ \A c \in {"title", "description", "assignee", "due_date", "priority"} :
                    u[c] = IF r.ok /\ t.id = taskId /\ key(c) \in DOMAIN updates
                           THEN updates[key(c)] ELSE t[c]
               /\ tagsOf(r.db, t.id) =
                    IF r.ok /\ t.id = taskId /\ "tags" \in DOMAIN updates
                    THEN Range(updates.tags) ELSE tagsOf(db, t.id)

C21_Witness ==
  /\ last.op = "updateTask" /\ last.ok
  /\ taskIds(db) = 1 .. FieldTasks
  /\ \E t \in db.tasks : t.title = "C" /\ t.order_index = 0 /\ t.column_id = 1
  /\ \E t \in db.tasks : t.due_date = "d" /\ tagsOf(db, t.id) = {<<"b">>}

(* C22: after any sequence of createProjectWithDefaults, createColumn,     *)
(* updateColumn, deleteColumn and deleteProject the order_index values of   *)
(* the columns of one project are pairwise distinct.                        *)
C22_ColumnOrdersDistinct ==
  \A a, b \in db.columns :
    a.project_id = b.project_id /\ a.id # b.id => a.order_index # b.order_index

C22_Witness ==
  /\ last.op = "createColumn" /\ last.ok
  /\ \E p \in db.projects :
       {c.order_index : c \in {x \in db.columns : x.project_id = p.id}} = {1, 3, 4}

(* C23: deleteColumn removes the column, the tasks of the column and the   *)
(* tag rows of those tasks; deleteTask removes the task and its tag rows;   *)
(* every other row, the project row included, stays as it was.             *)
C23_DeleteRemovesOnlyItsRows ==
  /\ \A columnId \in columnArgs(Deleting) :
       LET r == deleteColumn(db, columnId)
           gone == {t.id : t \in tasksIn(db, columnId)}
       IN /\ r.db.projects = db.projects
          /\ r.db.columns = {c \in db.columns : c.id # columnId}
          /\ r.db.tasks = {t \in db.tasks : t.id \notin gone}
          /\ r.db.task_tags = {g \in db.task_tags : g.task_id \notin gone}
  /\ \A taskId \in taskArgs :
       LET r == deleteTask(db, taskId)
       IN /\ r.db.projects = db.projects
          /\ r.db.columns = db.columns
          /\ r.db.tasks = {t \in db.tasks : t.id # taskId}
          /\ r.db.task_tags = {g \in db.task_tags : g.task_id # taskId}

C23_Witness ==
  /\ last.op = "deleteColumn" /\ last.ok /\ last.rows = 7
  /\ Cardinality(db.projects) = 1
  /\ Cardinality(db.columns) = Len(defaultColumns) - 1
  /\ \E t \in db.tasks : Cardinality(tagsOf(db, t.id)) = 2

C25_RestartKeepsOrder ==
  LET e == initTables(db)
  IN /\ \A t \in db.tasks : taskRow(e, t.id).order_index = t.order_index
     /\ \A columnId \in columnIds(db) : readIds(e, columnId) = readIds(db, columnId)

(* C26: moveTask for a task id that names no task changes no row, with or *)
(* without newIndex.                                                       *)
C26_MoveAbsentTaskChangesNothing ==
  \A taskId \in taskArgs \ taskIds(db), columnId \in columnArgs(Ordering),
     hasIndex \in BOOLEAN, newIndex \in Ordering.indexes :
    \A r \in moveTask(db, taskId, columnId, hasIndex, newIndex) : r.db = db

(* C27: reorderTasks(columnId, taskIds) modifies only tasks of columnId,  *)
(* whatever ids the list holds.                                            *)
C27_ReorderTouchesOnlyItsColumn ==
  \A columnId \in columnArgs(Ordering), taskIdList \in ListsUpTo(taskArgs, MaxTasks) :
    LET r == reorderTasks(db, columnId, taskIdList)
    IN \A t \in db.tasks : t.column_id # columnId => taskRow(r.db, t.id) = t

(* C28: createProjectWithDefaults is all-or-nothing: when the insert of   *)
(* the project or of a default column fails, the call throws and no row    *)
(* it inserted remains. The ids range over the distinct values generateId *)
(* can return, those of existing rows included.                            *)
C28_CreateProjectAllOrNothing ==
  \A projectData \in Boards.projectData, projectId \in ProjectIds,
     ids \in [1 .. Len(defaultColumns) -> ColumnIds] :
    LET r == createProjectWithIds(db, projectData, projectId, ids)
    IN (\A i, j \in DOMAIN ids : i # j => ids[i] # ids[j]) /\ ~r.ok
         => r.error /\ r.db = db

(* The transaction statements of log pair up: a BEGIN, then one COMMIT or *)
(* one ROLLBACK, and so on; none is open at the end.                       *)
matched(log) ==
  /\ Len(log) % 2 = 0
  /\ \A i \in 1 .. Len(log) :
       IF i % 2 = 1 THEN log[i] = "BEGIN" ELSE log[i] \in {"COMMIT", "ROLLBACK"}

(* r began a transaction and closed it, with COMMIT exactly when it        *)
(* returned without a failure.                                             *)
closed(r) ==
  /\ matched(r.log)
  /\ r.log # <<>>
  /\ (r.log[Len(r.log)] = "COMMIT") = r.ok

C30_MoveTouchesOnlyDestination ==
  \A taskId \in taskIds(db), columnId \in columnIds(db), newIndex \in Ordering.indexes :
    \A r \in moveTask(db, taskId, columnId, TRUE, newIndex) :
      /\ r.db.projects = db.projects
      /\ r.db.columns = db.columns
      /\ r.db.task_tags = db.task_tags
      /\ taskIds(r.db) = taskIds(db)
      /\ \A t \in db.tasks :
           LET u == taskRow(r.db, t.id)
           IN IF t.id = taskId
              THEN [u EXCEPT !.column_id = t.column_id, !.order_index = t.order_index] = t
              ELSE IF t.column_id = columnId
              THEN [u EXCEPT !.order_index = t.order_index] = t
              ELSE u = t
      /\ \A c \in columnIds(db) \ {columnId} :
           readIds(r.db, c) = {without(ids, taskId) : ids \in readIds(db, c)}

(* A task was moved out of the middle of a column of three to the front of *)
(* another column: the two left behind keep 0 and 2.                       *)
C30_Witness ==
  /\ last.op = "moveTask" /\ last.ok
  /\ taskIds(db) = TaskIds
  /\ \E from, to \in columnIds(db) :
       /\ from # to
       /\ orderIndexes(db, from) = {0, 2}
       /\ orderIndexes(db, to) = {0}

====
